---------------------------- MODULE Spec2Model ----------------------------
(***************************************************************************)
(* Selection-set to type synthesis of graphql-code-generator.              *)
(*                                                                         *)
(* Two synthesis implementations are modelled, each as a state machine     *)
(* that consumes a selection tree one selection node at a time, in the     *)
(* order the code's forEach / for-of loops visit them:                     *)
(*                                                                         *)
(*   - buildInnerModelsArray (src/src/inner-models-builer.ts): the flat,   *)
(*     named model list.  Variables result, frames, innerStatus,           *)
(*     innerError, innerNodes.  Specification InnerSpec.                   *)
(*   - SelectionSetToObject (visitor-plugin-common/selection-set-to-       *)
(*     object.ts): the nested body composition.  Variables collectors,     *)
(*     output, status, nodes, addTypename, lastString.  Specification Spec.*)
(*                                                                         *)
(* The recursion of both is modelled by an explicit stack of activations.  *)
(* The selection tree is the input: every step draws the next selection    *)
(* node (or the end of the current selection set) from small sets.         *)
(***************************************************************************)
EXTENDS Integers, Sequences, FiniteSets, TLC

VARIABLES
  result,        \* buildInnerModelsArray: the Model[] accumulator `result`
  frames,        \* buildInnerModelsArray: stack of activations (rootObject, appendTo, ...)
  innerStatus,   \* "running" | "done" | "error"
  innerError,    \* which statement threw, "" when none
  innerNodes,    \* selection nodes consumed so far in this run
  collectors,    \* SelectionSetToObject: stack of instances whose `string` getter is running
  output,        \* SelectionSetToObject: value returned by the outermost `string`
  status,        \* "running" | "done" | "error"
  nodes,         \* selection nodes consumed so far in this run
  addTypename,   \* SelectionSetToObject._addTypename
  lastString     \* the most recent completed `string` evaluation (instance state and value)

innerVars == <<result, frames, innerStatus, innerError, innerNodes>>
collectorVars == <<collectors, output, status, nodes, addTypename, lastString>>
vars == <<result, frames, innerStatus, innerError, innerNodes,
          collectors, output, status, nodes, addTypename, lastString>>

(***************************************************************************)
(* Bounds of the explored inputs.                                          *)
(***************************************************************************)
MaxInnerNodes == 4   \* selection nodes in one buildInnerModelsArray run
MaxInnerDepth == 3   \* nesting depth of selection sets in that run
MaxNodes == 4        \* selection nodes in one SelectionSetToObject run
MaxDepth == 2        \* nesting depth of selection sets in that run

(***************************************************************************)
(* The schema the runs are made against.                                   *)
(*   type Query { user: User  result: [User!]!  pet: Animal  name: String }*)
(*   type User  { name: String!  pet: Animal  user: User }                 *)
(*   union Animal = User                                                   *)
(***************************************************************************)
Undefined == "undefined"

TypeKind(t) ==
  CASE t = "Query" -> "Object"
    [] t = "User" -> "Object"
    [] t = "Animal" -> "Union"
    [] t = "String" -> "Scalar"
    [] t = "__Schema" -> "Object"
    [] OTHER -> Undefined

NoField == [type |-> Undefined, isArray |-> FALSE, isRequired |-> FALSE]

FieldsOf(t) ==
  CASE t = "Query" ->
         [user   |-> [type |-> "User",   isArray |-> FALSE, isRequired |-> FALSE],
          result |-> [type |-> "User",   isArray |-> TRUE,  isRequired |-> TRUE],
          pet    |-> [type |-> "Animal", isArray |-> FALSE, isRequired |-> FALSE],
          name   |-> [type |-> "String", isArray |-> FALSE, isRequired |-> FALSE]]
    [] t = "User" ->
         [name |-> [type |-> "String", isArray |-> FALSE, isRequired |-> TRUE],
          pet  |-> [type |-> "Animal", isArray |-> FALSE, isRequired |-> FALSE],
          user |-> [type |-> "User",   isArray |-> FALSE, isRequired |-> FALSE]]
    [] OTHER -> [x \in {} |-> NoField]

\* schema.getType / typeFromAST: the named type, or undefined
SchemaGetType(name) == IF TypeKind(name) = Undefined THEN Undefined ELSE name

\* pascal-case of the names the inputs are drawn from
PascalCase(s) ==
  CASE s = "user" -> "User"
    [] s = "result" -> "Result"
    [] s = "pet" -> "Pet"
    [] s = "name" -> "Name"
    [] s = "bogus" -> "Bogus"
    [] s = "f" -> "F"
    [] s = "g" -> "G"
    [] OTHER -> s

(***************************************************************************)
(* Selection nodes.  alias = "" stands for a node without an alias.        *)
(***************************************************************************)
FieldNode(name, alias) == [kind |-> "Field", name |-> name, alias |-> alias]
FragmentSpreadNode(name) == [kind |-> "FragmentSpread", name |-> name, alias |-> ""]
InlineFragmentNode(onType) == [kind |-> "InlineFragment", name |-> onType, alias |-> ""]

Last(s) == s[Len(s)]
Front(s) == SubSeq(s, 1, Len(s) - 1)

(***************************************************************************)
(*                     buildInnerModelsArray                               *)
(***************************************************************************)
InnerFieldNames == {"user", "result", "pet", "name", "bogus"}
InnerAliases == {"", "a"}
InnerSpreadNames == {"f"}
InnerTypeConditions == {"User", "Animal"}

NewModel(name) ==
  [name |-> name, fields |-> <<>>, fragmentsUsed |-> <<>>, inlineFragments |-> <<>>,
   usingFragments |-> Undefined, hasInlineFragments |-> Undefined]

NoPending == [kind |-> "none", propertyName |-> "", modelName |-> "",
              isArray |-> FALSE, isRequired |-> FALSE]

\* one activation of buildInnerModelsArray; appendTo is an index into result, 0 = undefined
InnerFrame(rootObject, appendTo) ==
  [rootObject |-> rootObject, appendTo |-> appendTo, selections |-> <<>>,
   pending |-> NoPending]

ModelNames(models) == {models[i].name : i \in 1..Len(models)}

\* utils.getFieldDef: the field definition of the parent type, undefined when absent
getFieldDef(rootObject, fieldName) ==
  IF fieldName \in DOMAIN FieldsOf(rootObject) THEN FieldsOf(rootObject)[fieldName] ELSE NoField

\* utils.handleNameDuplications: Name, else Name2, Name3, ... until unused
handleNameDuplications(name, models) ==
  IF name \notin ModelNames(models) THEN name
  ELSE LET free(k) == (name \o ToString(k)) \notin ModelNames(models)
           k == CHOOSE n \in 2..(Len(models) + 2) :
                  free(n) /\ \A m \in 2..(n - 1) : ~free(m)
       IN name \o ToString(k)

\* utils.getTypeName: the primitive the map gives, else the type's own name
getTypeName(typeName) == IF typeName = "String" THEN "string" ELSE typeName

\* a push that overwrites the fields pushed before
PushFieldReplacing(model, propertyName, typeName, isArr, isReq) ==
  [model EXCEPT !.fields = << [name |-> propertyName, type |-> typeName,
                               isArray |-> isArr, isRequired |-> isReq] >>]

\* appendTo.fields.push({name, type, isArray, isRequired})
PushField(model, propertyName, typeName, isArr, isReq) ==
  [model EXCEPT !.fields = Append(@, [name |-> propertyName, type |-> typeName,
                                      isArray |-> isArr, isRequired |-> isReq])]

\* appendTo.fragmentsUsed.push(pascalCase(fragmentName)); usingFragments = length > 0
PushFragmentUsed(model, fragmentName) ==
  [model EXCEPT !.fragmentsUsed = Append(@, PascalCase(fragmentName)),
                !.usingFragments = "true"]

\* appendTo.inlineFragments.push({typeName, onModel}); hasInlineFragments = length > 0
PushInlineFragment(model, typeName, onModel) ==
  [model EXCEPT !.inlineFragments = Append(@, [typeName |-> typeName, onModel |-> onModel]),
                !.hasInlineFragments = "true"]

InnerTop == Last(frames)
InnerRunning == innerStatus = "running"
InnerCanSelect == InnerRunning /\ innerNodes < MaxInnerNodes
InnerConsume(node) == [InnerTop EXCEPT !.selections = Append(@, node)]
InnerThrow(node, what) ==
  /\ innerStatus' = "error"
  /\ innerError' = what
  /\ frames' = [frames EXCEPT ![Len(frames)] = InnerConsume(node)]
  /\ innerNodes' = innerNodes + 1
  /\ UNCHANGED result

InnerInit ==
  /\ result = <<>>
  /\ frames = << InnerFrame("Query", 0) >>
  /\ innerStatus = "running"
  /\ innerError = ""
  /\ innerNodes = 0

\* case FIELD, getFieldDef gives nothing: `field.type` throws
InnerUnknownField(name, alias) ==
  /\ InnerCanSelect
  /\ getFieldDef(InnerTop.rootObject, name) = NoField
  /\ InnerThrow(FieldNode(name, alias), "field.type")
  /\ UNCHANGED collectorVars

\* case FIELD, actualType instanceof GraphQLObjectType: lines 26-36, up to the recursive call
InnerObjectField(name, alias) ==
  /\ InnerCanSelect
  /\ Len(frames) < MaxInnerDepth
  /\ LET field == getFieldDef(InnerTop.rootObject, name)
         modelName == handleNameDuplications(PascalCase(name), result)
         caller == [InnerConsume(FieldNode(name, alias)) EXCEPT
                      !.pending = [kind |-> "field",
                                   propertyName |-> IF alias # "" THEN alias ELSE name,
                                   modelName |-> modelName,
                                   isArray |-> field.isArray,
                                   isRequired |-> field.isRequired]]
     IN /\ field # NoField
        /\ TypeKind(field.type) = "Object"
        /\ result' = Append(result, NewModel(modelName))
        /\ frames' = Append([frames EXCEPT ![Len(frames)] = caller],
                            InnerFrame(field.type, Len(result) + 1))
  /\ innerNodes' = innerNodes + 1
  /\ UNCHANGED <<innerStatus, innerError>>
  /\ UNCHANGED collectorVars

\* the recursive call of line 36 returns: lines 38-55
InnerObjectFieldReturn ==
  /\ InnerRunning
  /\ Len(frames) > 1
  /\ LET caller == frames[Len(frames) - 1]
         p == caller.pending
         withResult == IF caller.appendTo = 0 THEN Append(result, NewModel("Result")) ELSE result
         appendTo == IF caller.appendTo = 0 THEN Len(result) + 1 ELSE caller.appendTo
     IN /\ p.kind = "field"
        /\ result' = [withResult EXCEPT ![appendTo] =
                        PushField(@, p.propertyName, p.modelName, p.isArray, p.isRequired)]
        /\ frames' = [Front(frames) EXCEPT ![Len(frames) - 1] =
                        [caller EXCEPT !.appendTo = appendTo, !.pending = NoPending]]
  /\ UNCHANGED <<innerStatus, innerError, innerNodes>>
  /\ UNCHANGED collectorVars

\* case FIELD, else branch: lines 57-64
InnerOtherField(name, alias) ==
  /\ InnerCanSelect
  /\ LET field == getFieldDef(InnerTop.rootObject, name)
         node == FieldNode(name, alias)
     IN /\ field # NoField
        /\ TypeKind(field.type) # "Object"
        /\ IF InnerTop.appendTo = 0
           THEN InnerThrow(node, "appendTo.fields")
           ELSE /\ result' = [result EXCEPT ![InnerTop.appendTo] =
                                PushField(@, IF alias # "" THEN alias ELSE name,
                                          getTypeName(field.type), field.isArray, field.isRequired)]
                /\ frames' = [frames EXCEPT ![Len(frames)] = InnerConsume(node)]
                /\ innerNodes' = innerNodes + 1
                /\ UNCHANGED <<innerStatus, innerError>>
  /\ UNCHANGED collectorVars

\* case FRAGMENT_SPREAD: lines 68-72
InnerFragmentSpread(name) ==
  /\ InnerCanSelect
  /\ LET node == FragmentSpreadNode(name)
     IN IF InnerTop.appendTo = 0
        THEN InnerThrow(node, "appendTo.fragmentsUsed")
        ELSE /\ result' = [result EXCEPT ![InnerTop.appendTo] = PushFragmentUsed(@, name)]
             /\ frames' = [frames EXCEPT ![Len(frames)] = InnerConsume(node)]
             /\ innerNodes' = innerNodes + 1
             /\ UNCHANGED <<innerStatus, innerError>>
  /\ UNCHANGED collectorVars

\* case INLINE_FRAGMENT: lines 74-93, up to the recursive call
InnerInlineFragment(onType) ==
  /\ InnerCanSelect
  /\ Len(frames) < MaxInnerDepth
  /\ LET node == InlineFragmentNode(onType)
         root == SchemaGetType(onType)
         name == onType \o "InlineFragment"
         caller == [InnerConsume(node) EXCEPT !.pending = [NoPending EXCEPT !.kind = "inline"]]
     IN IF InnerTop.appendTo = 0
        THEN InnerThrow(node, "appendTo.inlineFragments")
        ELSE /\ result' = Append([result EXCEPT ![InnerTop.appendTo] =
                                    PushInlineFragment(@, name, onType)],
                                 NewModel(name))
             /\ frames' = Append([frames EXCEPT ![Len(frames)] = caller],
                                 InnerFrame(root, Len(result) + 1))
             /\ innerNodes' = innerNodes + 1
             /\ UNCHANGED <<innerStatus, innerError>>
  /\ UNCHANGED collectorVars

\* the recursive call of line 93 returns
InnerInlineFragmentReturn ==
  /\ InnerRunning
  /\ Len(frames) > 1
  /\ frames[Len(frames) - 1].pending.kind = "inline"
  /\ frames' = [Front(frames) EXCEPT ![Len(frames) - 1] = [@ EXCEPT !.pending = NoPending]]
  /\ UNCHANGED <<result, innerStatus, innerError, innerNodes>>
  /\ UNCHANGED collectorVars

\* the outermost forEach ends: return result
InnerReturn ==
  /\ InnerRunning
  /\ Len(frames) = 1
  /\ innerStatus' = "done"
  /\ UNCHANGED <<result, frames, innerError, innerNodes>>
  /\ UNCHANGED collectorVars

InnerNext ==
  \/ \E name \in InnerFieldNames, alias \in InnerAliases : InnerUnknownField(name, alias)
  \/ \E name \in InnerFieldNames, alias \in InnerAliases : InnerObjectField(name, alias)
  \/ InnerObjectFieldReturn
  \/ \E name \in InnerFieldNames, alias \in InnerAliases : InnerOtherField(name, alias)
  \/ \E name \in InnerSpreadNames : InnerFragmentSpread(name)
  \/ \E onType \in InnerTypeConditions : InnerInlineFragment(onType)
  \/ InnerInlineFragmentReturn
  \/ InnerReturn

CollectorIdle ==
  /\ collectors = <<>>
  /\ output = <<>>
  /\ status = "idle"
  /\ nodes = 0
  /\ addTypename = FALSE
  /\ lastString = <<>>

InnerIdle ==
  /\ result = <<>>
  /\ frames = <<>>
  /\ innerStatus = "idle"
  /\ innerError = ""
  /\ innerNodes = 0

InnerSpecInit == InnerInit /\ CollectorIdle

InnerSpec == InnerSpecInit /\ [][InnerNext]_vars


(***************************************************************************)
(*                       SelectionSetToObject                              *)
(*                                                                         *)
(* The value of `string` is kept structurally: a sequence of parts, joined *)
(* by ' & ' in the text; the empty sequence is the empty string ''.        *)
(***************************************************************************)
FieldNames == {"__schema", "name", "pet", "bogus"}
Aliases == {"", "a"}
NoAlias == {""}
SpreadNames == {"f", "g"}
TypeConditions == {"User", "Animal", "Missing"}

\* the fragments the document set defines (documents of the plugin call)
DefinedFragments == {"f"}

\* the scalars map handed to the constructor
Scalars == {"String"}

isMetadataFieldName(name) == name \in {"__schema", "__type"}

\* the schema has a query type only
isRootType(type) == type = "Query"

\* SchemaMetaFieldDef: __schema: __Schema!    TypeMetaFieldDef: __type: __Type
metadataFieldMap(name) ==
  IF name = "__schema"
  THEN [type |-> "__Schema", isArray |-> FALSE, isRequired |-> TRUE]
  ELSE [type |-> "__Type", isArray |-> FALSE, isRequired |-> FALSE]

isObjectOrInterfaceType(type) == TypeKind(type) \in {"Object", "Interface"}

\* lines 85-89: the schema field of a selected field, NoField when getFields() has none
SchemaField(parentSchemaType, name) ==
  IF isRootType(parentSchemaType) /\ isMetadataFieldName(name)
  THEN metadataFieldMap(name)
  ELSE getFieldDef(parentSchemaType, name)

\* line 95: _scalars[typeName] || isEnumType(baseType) || isScalarType(baseType)
IsPrimitive(typeName) ==
  IF typeName \in Scalars THEN TRUE ELSE TypeKind(typeName) \in {"Enum", "Scalar"}

\* _convertName(name, {useTypesPrefix: true}) under the default naming policy
ConvertTypeName(name) == name

\* _convertName(fragmentName, {suffix: 'Fragment', useTypesPrefix: true})
ConvertFragmentName(name) == PascalCase(name) \o "Fragment"

NoCollectorPending ==
  [kind |-> "none", name |-> "", alias |-> "", type |-> "", isArray |-> FALSE,
   isRequired |-> FALSE]

\* createNext / the constructor: a fresh instance on a parent type
NewCollector(parentSchemaType) ==
  [parentSchemaType |-> parentSchemaType,
   selections |-> <<>>,              \* the selections the loop of `string` has visited
   primitiveFields |-> <<>>,
   primitiveAliasedFields |-> <<>>,
   linksFields |-> <<>>,
   fragmentSpreads |-> <<>>,
   inlineFragments |-> <<>>,         \* { onType: string[] }, keys in insertion order
   queriedForTypename |-> FALSE,
   inlineVisited |-> <<>>,           \* each inline fragment visited, in order, with its value
   pending |-> NoCollectorPending]

\* wrapTypeWithModifiers(baseType, type): the body under the field's list/required wrappers
wrapTypeWithModifiers(body, isArr, isReq) ==
  [isArray |-> isArr, isRequired |-> isReq, body |-> body]

\* lines 76-80
CollectTypename(c) == [c EXCEPT !.queriedForTypename = TRUE]

\* lines 96-103
CollectPrimitive(c, name, alias) ==
  IF alias # ""
  THEN [c EXCEPT !.primitiveAliasedFields = Append(@, [fieldName |-> name, alias |-> alias])]
  ELSE [c EXCEPT !.primitiveFields = Append(@, name)]

\* lines 107-112
CollectLink(c, name, alias, typeName, selectionSet) ==
  [c EXCEPT !.linksFields = Append(@, [alias |-> alias, name |-> name, type |-> typeName,
                                       selectionSet |-> selectionSet])]

\* a collector that drops the spreads of fragments the document set does not define
CollectSpreadDefinedOnly(c, name) ==
  IF name \in DefinedFragments THEN [c EXCEPT !.fragmentSpreads = Append(@, name)] ELSE c

\* lines 117-119
CollectSpread(c, name) == [c EXCEPT !.fragmentSpreads = Append(@, name)]

KeyIndex(inlineFragments, onType) ==
  IF \E i \in 1..Len(inlineFragments) : inlineFragments[i].onType = onType
  THEN CHOOSE i \in 1..Len(inlineFragments) : inlineFragments[i].onType = onType
  ELSE 0

\* a collector whose later inline fragment replaces the earlier ones on the same type
CollectInlineReplacing(c, onType, value) ==
  LET i == KeyIndex(c.inlineFragments, onType)
  IN IF i = 0
     THEN [c EXCEPT !.inlineFragments = Append(@, [onType |-> onType, bodies |-> <<value>>])]
     ELSE [c EXCEPT !.inlineFragments[i].bodies = <<value>>]

\* lines 126-130
CollectInline(c, onType, value) ==
  LET i == KeyIndex(c.inlineFragments, onType)
  IN IF i = 0
     THEN [c EXCEPT !.inlineFragments = Append(@, [onType |-> onType, bodies |-> <<value>>])]
     ELSE [c EXCEPT !.inlineFragments[i].bodies = Append(@, value)]

\* a typename field that is optional whether or not __typename was selected
buildTypeNameFieldAlwaysOptional(c) ==
  IF TypeKind(c.parentSchemaType) \in {"Union", "Interface"}
  THEN <<>>
  ELSE << [part |-> "typename", optional |-> TRUE,
           possibleTypes |-> <<c.parentSchemaType>>] >>

\* lines 174-188
buildTypeNameField(c) ==
  IF TypeKind(c.parentSchemaType) \in {"Union", "Interface"}
  THEN <<>>
  ELSE << [part |-> "typename", optional |-> ~c.queriedForTypename,
           possibleTypes |-> <<c.parentSchemaType>>] >>

\* lines 190-196
buildPrimitiveFields(parentName, fields) ==
  IF Len(fields) = 0 THEN <<>>
  ELSE << [part |-> "Pick", parentName |-> parentName, fields |-> fields] >>

\* lines 198-206
buildAliasedPrimitiveFields(parentName, fields) ==
  IF Len(fields) = 0 THEN <<>>
  ELSE << [part |-> "aliased",
           entries |-> [i \in 1..Len(fields) |->
                          [key |-> fields[i].alias, parentName |-> parentName,
                           fieldName |-> fields[i].fieldName]]] >>

\* lines 212-220
buildLinkFields(fields) ==
  IF Len(fields) = 0 THEN <<>>
  ELSE << [part |-> "links",
           entries |-> [i \in 1..Len(fields) |->
                          [key |-> IF fields[i].alias # "" THEN fields[i].alias
                                   ELSE fields[i].name,
                           selectionSet |-> fields[i].selectionSet]]] >>

\* lines 222-226
buildInlineFragments(inlineFragments) ==
  IF Len(inlineFragments) = 0 THEN <<>>
  ELSE << [part |-> "inline",
           branches |-> [i \in 1..Len(inlineFragments) |-> inlineFragments[i].bodies]] >>

\* lines 228-242
buildFragmentSpread(fragmentsSpread) ==
  IF Len(fragmentsSpread) = 0 THEN <<>>
  ELSE << [part |-> "fragments",
           names |-> [i \in 1..Len(fragmentsSpread) |->
                        ConvertFragmentName(fragmentsSpread[i])]] >>

\* lines 154-167, after the loop: the parts that are not null, in the order of fieldsSet
ComposeString(c, withTypename) ==
  LET parentName == ConvertTypeName(c.parentSchemaType)
      typeName == IF withTypename \/ c.queriedForTypename THEN buildTypeNameField(c) ELSE <<>>
  IN typeName
     \o buildPrimitiveFields(parentName, c.primitiveFields)
     \o buildAliasedPrimitiveFields(parentName, c.primitiveAliasedFields)
     \o buildLinkFields(c.linksFields)
     \o buildFragmentSpread(c.fragmentSpreads)
     \o buildInlineFragments(c.inlineFragments)

\* line 134-136: no selections, the value is ''
StringOf(c, withTypename) ==
  IF Len(c.selections) = 0 THEN <<>> ELSE ComposeString(c, withTypename)

\* line 154 reads _parentSchemaType.name: it throws on an unresolved parent type
StringThrows(c) == Len(c.selections) > 0 /\ c.parentSchemaType = Undefined

Top == Last(collectors)
Running == status = "running"
CanSelect == Running /\ nodes < MaxNodes
Consume(node) == [Top EXCEPT !.selections = Append(@, node)]
Evaluated(c) == << [instance |-> c, value |-> StringOf(c, addTypename)] >>

Init ==
  /\ collectors = << NewCollector("Query") >>
  /\ output = <<>>
  /\ status = "running"
  /\ nodes = 0
  /\ addTypename \in BOOLEAN
  /\ lastString = <<>>

\* _collectField, field.name.value === '__typename'
CollectTypenameField(alias) ==
  /\ CanSelect
  /\ collectors' = [collectors EXCEPT ![Len(collectors)] =
                      CollectTypename(Consume(FieldNode("__typename", alias)))]
  /\ nodes' = nodes + 1
  /\ UNCHANGED <<output, status, addTypename, lastString>>
  /\ UNCHANGED innerVars

\* _collectField on a parent that is neither an object nor an interface type: nothing happens
CollectFieldSkipped(name, alias) ==
  /\ CanSelect
  /\ name # "__typename"
  /\ ~isObjectOrInterfaceType(Top.parentSchemaType)
  /\ collectors' = [collectors EXCEPT ![Len(collectors)] = Consume(FieldNode(name, alias))]
  /\ nodes' = nodes + 1
  /\ UNCHANGED <<output, status, addTypename, lastString>>
  /\ UNCHANGED innerVars

\* _collectField, getFields() has no such field: `schemaField.type` throws at line 91
CollectFieldUnknown(name, alias) ==
  /\ CanSelect
  /\ name # "__typename"
  /\ isObjectOrInterfaceType(Top.parentSchemaType)
  /\ SchemaField(Top.parentSchemaType, name) = NoField
  /\ collectors' = [collectors EXCEPT ![Len(collectors)] = Consume(FieldNode(name, alias))]
  /\ status' = "error"
  /\ nodes' = nodes + 1
  /\ UNCHANGED <<output, addTypename, lastString>>
  /\ UNCHANGED innerVars

\* _collectField, lines 95-103
CollectPrimitiveField(name, alias) ==
  /\ CanSelect
  /\ name # "__typename"
  /\ isObjectOrInterfaceType(Top.parentSchemaType)
  /\ LET schemaField == SchemaField(Top.parentSchemaType, name)
     IN /\ schemaField # NoField
        /\ IsPrimitive(schemaField.type)
  /\ collectors' = [collectors EXCEPT ![Len(collectors)] =
                      CollectPrimitive(Consume(FieldNode(name, alias)), name, alias)]
  /\ nodes' = nodes + 1
  /\ UNCHANGED <<output, status, addTypename, lastString>>
  /\ UNCHANGED innerVars

\* _collectField, line 105: createNext(baseType, field.selectionSet), whose `string` is read next
CollectLinkField(name, alias) ==
  /\ CanSelect
  /\ Len(collectors) < MaxDepth
  /\ name # "__typename"
  /\ isObjectOrInterfaceType(Top.parentSchemaType)
  /\ LET schemaField == SchemaField(Top.parentSchemaType, name)
         caller == [Consume(FieldNode(name, alias)) EXCEPT
                      !.pending = [kind |-> "field", name |-> name, alias |-> alias,
                                   type |-> schemaField.type,
                                   isArray |-> schemaField.isArray,
                                   isRequired |-> schemaField.isRequired]]
     IN /\ schemaField # NoField
        /\ ~IsPrimitive(schemaField.type)
        /\ collectors' = Append([collectors EXCEPT ![Len(collectors)] = caller],
                                NewCollector(schemaField.type))
  /\ nodes' = nodes + 1
  /\ UNCHANGED <<output, status, addTypename, lastString>>
  /\ UNCHANGED innerVars

\* lines 107-112: the nested `string` returned, the link field is pushed
LinkFieldReturn ==
  /\ Running
  /\ Len(collectors) > 1
  /\ ~StringThrows(Top)
  /\ LET caller == collectors[Len(collectors) - 1]
         p == caller.pending
         value == StringOf(Top, addTypename)
     IN /\ p.kind = "field"
        /\ collectors' = [Front(collectors) EXCEPT ![Len(collectors) - 1] =
                            [CollectLink(caller, p.name, p.alias, p.type,
                                         wrapTypeWithModifiers(value, p.isArray, p.isRequired))
                               EXCEPT !.pending = NoCollectorPending]]
  /\ lastString' = Evaluated(Top)
  /\ UNCHANGED <<output, status, nodes, addTypename>>
  /\ UNCHANGED innerVars

\* _collectFragmentSpread
CollectFragmentSpread(name) ==
  /\ CanSelect
  /\ collectors' = [collectors EXCEPT ![Len(collectors)] =
                      CollectSpread(Consume(FragmentSpreadNode(name)), name)]
  /\ nodes' = nodes + 1
  /\ UNCHANGED <<output, status, addTypename, lastString>>
  /\ UNCHANGED innerVars

\* _collectInlineFragment, lines 122-124: createNext(schemaType, node.selectionSet)
CollectInlineFragment(onType) ==
  /\ CanSelect
  /\ Len(collectors) < MaxDepth
  /\ LET caller == [Consume(InlineFragmentNode(onType)) EXCEPT
                      !.pending = [NoCollectorPending EXCEPT !.kind = "inline", !.name = onType]]
     IN collectors' = Append([collectors EXCEPT ![Len(collectors)] = caller],
                             NewCollector(SchemaGetType(onType)))
  /\ nodes' = nodes + 1
  /\ UNCHANGED <<output, status, addTypename, lastString>>
  /\ UNCHANGED innerVars

\* _collectInlineFragment, lines 126-130: the nested `string` returned
InlineFragmentReturn ==
  /\ Running
  /\ Len(collectors) > 1
  /\ ~StringThrows(Top)
  /\ LET caller == collectors[Len(collectors) - 1]
         p == caller.pending
         value == StringOf(Top, addTypename)
         collected == CollectInline(caller, p.name, value)
     IN /\ p.kind = "inline"
        /\ collectors' = [Front(collectors) EXCEPT ![Len(collectors) - 1] =
                            [collected EXCEPT
                               !.inlineVisited = Append(@, [onType |-> p.name, value |-> value,
                                                            selections |-> Top.selections]),
                               !.pending = NoCollectorPending]]
  /\ lastString' = Evaluated(Top)
  /\ UNCHANGED <<output, status, nodes, addTypename>>
  /\ UNCHANGED innerVars

\* the running `string` reaches line 154 with an unresolved parent type: .name throws
StringTypeError ==
  /\ Running
  /\ StringThrows(Top)
  /\ status' = "error"
  /\ UNCHANGED <<collectors, output, nodes, addTypename, lastString>>
  /\ UNCHANGED innerVars

\* the outermost `string` returns
StringReturn ==
  /\ Running
  /\ Len(collectors) = 1
  /\ ~StringThrows(Top)
  /\ output' = StringOf(Top, addTypename)
  /\ lastString' = Evaluated(Top)
  /\ status' = "done"
  /\ UNCHANGED <<collectors, nodes, addTypename>>
  /\ UNCHANGED innerVars

Next ==
  \/ \E alias \in NoAlias : CollectTypenameField(alias)
  \/ \E name \in FieldNames, alias \in NoAlias : CollectFieldSkipped(name, alias)
  \/ \E name \in FieldNames, alias \in NoAlias : CollectFieldUnknown(name, alias)
  \/ \E name \in FieldNames, alias \in Aliases : CollectPrimitiveField(name, alias)
  \/ \E name \in FieldNames, alias \in NoAlias : CollectLinkField(name, alias)
  \/ LinkFieldReturn
  \/ \E name \in SpreadNames : CollectFragmentSpread(name)
  \/ \E onType \in TypeConditions : CollectInlineFragment(onType)
  \/ InlineFragmentReturn
  \/ StringTypeError
  \/ StringReturn

SpecInit == Init /\ InnerIdle

Spec == SpecInit /\ [][Next]_vars


(***************************************************************************)
(*                 Properties of buildInnerModelsArray                     *)
(***************************************************************************)
IsPrefix(s, t) == Len(s) <= Len(t) /\ SubSeq(t, 1, Len(s)) = s

FieldNodes(selections) == SelectSeq(selections, LAMBDA n : n.kind = "Field")
SpreadNodes(selections) == SelectSeq(selections, LAMBDA n : n.kind = "FragmentSpread")
KeyOf(node) == IF node.alias # "" THEN node.alias ELSE node.name

\* C1 (name uniqueness): after buildInnerModelsArray returns, no two declarations of the
\* returned collection have the same name.
C1_NameUniqueness ==
  innerStatus = "done" =>
    \A i, j \in 1..Len(result) : i # j => result[i].name # result[j].name

\* a step of the run that consumed a FragmentSpread of the current selection set
InnerSpreadStep ==
  /\ innerNodes' = innerNodes + 1
  /\ Len(frames') = Len(frames)
  /\ Last(Last(frames').selections).kind = "FragmentSpread"

\* C2 (fragment independence): every FragmentSpread that is processed adds exactly one
\* reference, the converted fragment name, to the fragment list of the enclosing node,
\* adds no field and no inline-fragment entry, and creates no declaration.
C2_FragmentIndependence ==
  [][InnerSpreadStep =>
       LET appendTo == InnerTop.appendTo
           name == Last(Last(frames').selections).name
       IN /\ innerStatus' = "running"
          /\ appendTo # 0
          /\ Len(result') = Len(result)
          /\ result'[appendTo].fragmentsUsed =
               Append(result[appendTo].fragmentsUsed, PascalCase(name))
          /\ result'[appendTo].fields = result[appendTo].fields
          /\ result'[appendTo].inlineFragments = result[appendTo].inlineFragments
          /\ \A i \in 1..Len(result) : i # appendTo => result'[i] = result[i]]_vars

IsComposite(typeName) == TypeKind(typeName) \in {"Object", "Interface", "Union"}

\* the Field selections of an activation whose handling is complete
CompletedFields(f) ==
  IF f.pending.kind = "field" THEN Front(FieldNodes(f.selections)) ELSE FieldNodes(f.selections)

\* C7 (leaf/link classification, buildInnerModelsArray side): every selected field whose
\* base type is an Object, Interface or Union is a link field, whose entry names a
\* declaration of the run; every other field is a leaf, whose entry names no declaration.
C7_LeafLinkClassification ==
  innerStatus # "error" =>
    \A d \in 1..Len(frames) :
      LET f == frames[d]
          selected == CompletedFields(f)
      IN f.appendTo # 0 =>
           /\ Len(result[f.appendTo].fields) = Len(selected)
           /\ \A k \in 1..Len(selected) :
                IsComposite(getFieldDef(f.rootObject, selected[k].name).type)
                  <=> result[f.appendTo].fields[k].type \in ModelNames(result)

\* C9 (immutability after push), as claimed: a declaration in the output collection never
\* changes in a later step of the run.
C9_ImmutableAfterPush ==
  [][\A i \in 1..Len(result) : result'[i] = result[i]]_vars

FlagKept(before, after) == before = "true" => after = "true"

\* C9, amended: a pushed declaration keeps its position and its name, and its fields,
\* fragmentsUsed and inlineFragments only grow at the end; a flag that is set stays set.
C9_AppendOnlyAfterPush ==
  [][/\ Len(result') >= Len(result)
     /\ \A i \in 1..Len(result) :
          /\ result'[i].name = result[i].name
          /\ IsPrefix(result[i].fields, result'[i].fields)
          /\ IsPrefix(result[i].fragmentsUsed, result'[i].fragmentsUsed)
          /\ IsPrefix(result[i].inlineFragments, result'[i].inlineFragments)
          /\ FlagKept(result[i].usingFragments, result'[i].usingFragments)
          /\ FlagKept(result[i].hasInlineFragments, result'[i].hasInlineFragments)]_vars

\* a declaration that received two fields after it was pushed, with a later declaration
\* pushed behind it
C9_Witness ==
  \E i, j \in 1..Len(result) : i < j /\ Len(result[i].fields) >= 2

\* C10 (root wrapper): a run on a non-empty root selection set (with no appendTo, and no
\* field the schema lacks) completes, and returns exactly one declaration named 'Result'
\* whose fields are the top-level Field selections, keyed by alias or name, in order.
C10_RootWrapper ==
  (/\ innerStatus \in {"done", "error"}
   /\ innerError # "field.type"
   /\ Len(frames[1].selections) > 0) =>
    /\ innerStatus = "done"
    /\ Cardinality({i \in 1..Len(result) : result[i].name = "Result"}) = 1
    /\ \A i \in 1..Len(result) :
         result[i].name = "Result" =>
           LET selected == FieldNodes(frames[1].selections)
           IN /\ Len(result[i].fields) = Len(selected)
              /\ \A k \in 1..Len(selected) : result[i].fields[k].name = KeyOf(selected[k])

(***************************************************************************)
(*                  Properties of SelectionSetToObject                     *)
(***************************************************************************)
Evaluation == lastString[1]
HasEvaluation == Len(lastString) = 1 /\ Len(lastString[1].instance.selections) > 0
PartsOf(value, kind) == SelectSeq(value, LAMBDA p : p.part = kind)

\* the bodies of the inline fragments visited on one type condition, in selection order
BodiesOn(visited, onType) ==
  LET on == SelectSeq(visited, LAMBDA v : v.onType = onType)
  IN [k \in 1..Len(on) |-> on[k].value]

\* the type conditions visited, each once, in the order of its first inline fragment
ConditionsOf(visited) ==
  LET first == SelectSeq([i \in 1..Len(visited) |-> i],
                         LAMBDA i : \A j \in 1..(i - 1) : visited[j].onType # visited[i].onType)
  IN [k \in 1..Len(first) |-> visited[first[k]].onType]

\* C3 (inline fragment union): the inline-fragment part of a body is a union with exactly
\* one branch per distinct type condition; the branch of a type condition is the AND of
\* the bodies of all inline fragments on that condition, in selection order, and of no
\* other.
C3_InlineFragmentUnion ==
  HasEvaluation =>
    LET visited == Evaluation.instance.inlineVisited
        conditions == ConditionsOf(visited)
        inline == PartsOf(Evaluation.value, "inline")
    IN IF Len(visited) = 0
       THEN Len(inline) = 0
       ELSE /\ Len(inline) = 1
            /\ Len(inline[1].branches) = Cardinality({visited[i].onType : i \in 1..Len(visited)})
            /\ inline[1].branches =
                 [k \in 1..Len(conditions) |-> BodiesOn(visited, conditions[k])]

\* two inline fragments on one type condition, both with a body, in one selection set
C3_Witness ==
  /\ HasEvaluation
  /\ \E i, j \in 1..Len(Evaluation.instance.inlineVisited) :
       LET visited == Evaluation.instance.inlineVisited
       IN /\ i < j
          /\ visited[i].onType = visited[j].onType
          /\ visited[i].value # <<>>
          /\ visited[j].value # <<>>
          /\ visited[i].value # visited[j].value

TypenameSelected(selections) ==
  \E i \in 1..Len(selections) :
    selections[i].kind = "Field" /\ selections[i].name = "__typename"

OtherFields(selections) ==
  SelectSeq(selections, LAMBDA n : n.kind = "Field" /\ n.name # "__typename")

\* C4 (typename defaulting): for a non-empty selection set on an object type the body has
\* a __typename entry iff typename injection is on or __typename is selected; the entry is
\* required when __typename is selected at any position and optional otherwise; and a
\* __typename selection adds no leaf, aliased-leaf or link entry.
C4_TypenameDefaulting ==
  (HasEvaluation /\ TypeKind(Evaluation.instance.parentSchemaType) = "Object") =>
    LET c == Evaluation.instance
        typename == PartsOf(Evaluation.value, "typename")
    IN /\ Len(typename) <= 1
       /\ Len(typename) = 1 <=> (addTypename \/ TypenameSelected(c.selections))
       /\ Len(typename) = 1 => (typename[1].optional <=> ~TypenameSelected(c.selections))
       /\ Len(c.primitiveFields) + Len(c.primitiveAliasedFields) + Len(c.linksFields)
            = Len(OtherFields(c.selections))

\* __typename selected after another field, with typename injection off
C4_Witness ==
  /\ HasEvaluation
  /\ ~addTypename
  /\ TypeKind(Evaluation.instance.parentSchemaType) = "Object"
  /\ Len(Evaluation.instance.selections) >= 2
  /\ Evaluation.instance.selections[1].name # "__typename"
  /\ TypenameSelected(Evaluation.instance.selections)
  /\ Len(Evaluation.instance.primitiveFields) >= 1

\* C5 (unknown field is fatal): no body is produced for a selection set that selects a
\* field, other than __typename, that the parent type does not define, whatever the kind
\* of the parent type.
C5_UnknownFieldFatal ==
  HasEvaluation =>
    \A i \in 1..Len(Evaluation.instance.selections) :
      LET node == Evaluation.instance.selections[i]
      IN (node.kind = "Field" /\ node.name # "__typename") =>
           SchemaField(Evaluation.instance.parentSchemaType, node.name) # NoField

\* C6 (unresolved fragment is fatal), as claimed: no body holds a reference to a fragment
\* that the document set does not define.
C6_UnresolvedFragmentFatal ==
  Len(lastString) = 1 =>
    \A p \in 1..Len(Evaluation.value) :
      Evaluation.value[p].part = "fragments" =>
        \A k \in 1..Len(Evaluation.value[p].names) :
          Evaluation.value[p].names[k] \in {ConvertFragmentName(f) : f \in DefinedFragments}

\* C6, amended: the collector never looks a fragment up; every body it produces
\* references, by converted name and in selection order, each fragment spread of its
\* selection set, whether the document set defines the fragment or not.
C6_SpreadsReferencedByName ==
  HasEvaluation =>
    LET spreads == SpreadNodes(Evaluation.instance.selections)
        fragments == PartsOf(Evaluation.value, "fragments")
    IN IF Len(spreads) = 0
       THEN Len(fragments) = 0
       ELSE /\ Len(fragments) = 1
            /\ fragments[1].names =
                 [k \in 1..Len(spreads) |-> ConvertFragmentName(spreads[k].name)]

\* a finished run whose body references a fragment the document set does not define
C6_Witness ==
  /\ status = "done"
  /\ \E p \in 1..Len(output) :
       /\ output[p].part = "fragments"
       /\ \E k \in 1..Len(output[p].names) :
            output[p].names[k] = ConvertFragmentName("g")
  /\ "g" \notin DefinedFragments

PartOrder(kind) ==
  CASE kind = "typename" -> 1
    [] kind = "Pick" -> 2
    [] kind = "aliased" -> 3
    [] kind = "links" -> 4
    [] kind = "fragments" -> 5
    [] kind = "inline" -> 6

\* a selection set every field of which the schema allows on the type
ValidOn(onType, selections) ==
  /\ Len(selections) > 0
  /\ \A i \in 1..Len(selections) :
       selections[i].kind = "Field" =>
         \/ selections[i].name = "__typename"
         \/ SchemaField(SchemaGetType(onType), selections[i].name) # NoField

\* C8 (composition): the body of a non-empty selection set is made of exactly the parts
\* whose bucket received an entry (the typename part: when requested on a concrete type),
\* in the order typename, leaves, aliased leaves, links, fragment spreads, inline
\* fragments, and no part without content (a union of empty branches) is among them.
\* Stated for selection sets whose inline fragments hold valid, non-empty selection sets.
C8_Composition ==
  (/\ HasEvaluation
   /\ \A i \in 1..Len(Evaluation.instance.inlineVisited) :
        ValidOn(Evaluation.instance.inlineVisited[i].onType,
                Evaluation.instance.inlineVisited[i].selections)) =>
    LET c == Evaluation.instance
        value == Evaluation.value
        has(kind) == Len(PartsOf(value, kind)) = 1
    IN /\ \A p, q \in 1..Len(value) :
            p < q => PartOrder(value[p].part) < PartOrder(value[q].part)
       /\ has("typename") <=> /\ addTypename \/ c.queriedForTypename
                              /\ TypeKind(c.parentSchemaType) = "Object"
       /\ has("Pick") <=> Len(c.primitiveFields) > 0
       /\ has("aliased") <=> Len(c.primitiveAliasedFields) > 0
       /\ has("links") <=> Len(c.linksFields) > 0
       /\ has("fragments") <=> Len(c.fragmentSpreads) > 0
       /\ has("inline") <=> Len(c.inlineFragments) > 0
       /\ \A p \in 1..Len(value) :
            value[p].part = "inline" =>
              \E b \in 1..Len(value[p].branches) :
                \E k \in 1..Len(value[p].branches[b]) : value[p].branches[b][k] # <<>>

=============================================================================
